---- MODULE Spec2Model ----
(***************************************************************************)
(* Bistr.py: resumable batch analysis of a directory of source files       *)
(* against an Ollama completion endpoint.  The model follows the control   *)
(* flow of sourceCodeAnalysis, build_context_from_directory,               *)
(* analyze_file_with_context and interactive_question_answering, with the  *)
(* state file and the HTML summary as the durable state that survives a    *)
(* process being killed and started again.                                 *)
(***************************************************************************)
EXTENDS Integers, Sequences, FiniteSets, TLC

\* ---------------------------------------------------------------- bounds
MaxFiles == 2       \* files found by the directory traversal
MaxTries == 2       \* calls made for one file before the model stops retrying
MaxQuestions == 1   \* questions asked in one interactive session
MaxRuns == 2        \* processes started one after another on the same disk
MaxIter == 2        \* counted refusals of the resume prompt
MaxBacklog == 3     \* files pending in the state file of BacklogSpec

\* ---------------------------------------------------------- value spaces
\* Python's None where a context (a list of integers) is expected.
NoContext == "None"
\* The empty context [] of a fresh start.
EmptyContext == "[]"
\* Contexts the service hands back: an absent "context" member or a token list.
ServiceContexts == {NoContext, "c1"}
\* The context found in a state file that exists before the first run.
StoredContexts == {"c0"}
Models == {"a", "b"}
Keys == {"A", "B"}
\* Python's None where the loaded state (a dict) is expected.
PyNone == [none |-> TRUE]

\* Status of the POST: 200 or anything else.
Statuses == {200, 500}
\* Seconds a call takes, given the samples taken before it: the time is an
\* input, and the calls of a run are given 1, 2, 3, ... seconds so that the
\* samples differ and their mean is no whole number.
Durations(samples) == {Len(samples) + 1}
\* The "relevance" member of a parsed answer.
Relevance == 50
\* What answer.get("response") holds: a JSON object, text that is no JSON,
\* nothing at all (None), or valid JSON that is no object.
Texts == {"object", "notjson", "absent", "scalar"}

\* What the operator types at the resume prompt, and at the question prompt.
Answers == {"y", "Y ", "n", "", "maybe"}
Questions == {"bye", "BYE", "what?"}

\* get_files_list: the traversal of the target directory, in os.walk order.
get_files_list == [i \in 1..MaxFiles |-> i]

RECURSIVE Suffixes(_)
Suffixes(s) == IF s = <<>> THEN {<<>>} ELSE {s} \cup Suffixes(Tail(s))

\* The model of the batch whose state is in the file before the first run.
StoredModels == {"a"}

\* States a state file can hold for one key before the first run: a pending
\* list left by an earlier batch over the traversal, a context and a model.
SavedStates ==
    [pending_files : Suffixes(get_files_list), context : StoredContexts,
     model : StoredModels]

\* str.strip().lower() on the answers the operator can type.
StripLower(s) == IF s = "Y " THEN "y" ELSE s

\* question.lower()
Lower(s) == IF s = "BYE" THEN "bye" ELSE s

\* A removal that takes the last element, as list.pop() would.
RemoveLast(s, x) == IF s = <<>> THEN <<>> ELSE SubSeq(s, 1, Len(s) - 1)

\* list.remove(x): drops the first element equal to x.
Remove(s, x) ==
    IF \E i \in 1..Len(s) : s[i] = x
    THEN LET i == CHOOSE i \in 1..Len(s) :
                     s[i] = x /\ \A j \in 1..(i - 1) : s[j] # x
         IN  SubSeq(s, 1, i - 1) \o SubSeq(s, i + 1, Len(s))
    ELSE s

Min(a, b) == IF a < b THEN a ELSE b

VARIABLES
    fileExists,        \* os.path.exists(SAVE_STATE_FILE)
    store,             \* the JSON document of the state file: key -> state
    html,              \* rows of the summary document on disk
    run,               \* number of the running process
    pc,                \* where the process is
    directory,         \* abs_directory
    model,             \* --model
    research,          \* TRUE when --research is given
    state,             \* sourceCodeAnalysis: state
    should_resume,     \* sourceCodeAnalysis: should_resume
    iters,             \* answers refused by the prompt so far (capped)
    context,           \* build_context_from_directory: context
    pending_files,     \* build_context_from_directory: pending_files
    batch,             \* the copy pending_files[:] the for loop walks
    total_files,       \* build_context_from_directory: total_files
    idx,               \* build_context_from_directory: idx
    file_path,         \* build_context_from_directory: file_path
    result,            \* build_context_from_directory: result
    time_differences,  \* module global
    analyzed_files,    \* module global: the records
    tries,             \* texts returned by the calls made for file_path
    completed,         \* files whose step completed in this run, in order
    sent,              \* context passed to the last call of this run
    chain,             \* context returned by the last completed step
    ncalls,            \* askOllama calls made by this run
    saves,             \* save_state calls made by this run
    asked,             \* questions sent in the interactive loop
    progress,          \* the percentage last printed (line 169)
    eta,               \* the time estimate last printed (lines 179-182)
    prev               \* what the previous process left behind when it ended

disk == <<fileExists, store, html>>
args == <<directory, model, research>>
locals == <<context, pending_files, batch, total_files, idx, file_path, result>>
globals == <<time_differences, analyzed_files>>
history == <<tries, completed, sent, chain, ncalls, saves, asked, prev>>
output == <<progress, eta>>
vars == <<disk, run, pc, args, state, should_resume, iters, locals, globals,
          history, output>>

\* ------------------------------------------------------------ StateStore
\* load_save_state(target_directory): the entry of the key, or None.
load_save_state(exists, state_data, target_directory) ==
    IF exists /\ target_directory \in DOMAIN state_data
    THEN state_data[target_directory]
    ELSE PyNone

\* save_state with the whole file replaced by the one entry.
SaveStateNoMerge(exists, state_data, target_directory, pending, ctx, mdl) ==
    [k \in {target_directory} |->
        [pending_files |-> pending, context |-> ctx, model |-> mdl]]

\* save_state that writes nothing.
SaveStateSkipped(exists, state_data, target_directory, pending, ctx, mdl) ==
    state_data

\* save_state(target_directory, pending_files, context, model): the document
\* written back, read from the file when there is one.
save_state(exists, state_data, target_directory, pending, ctx, mdl) ==
    LET loaded == IF exists THEN state_data ELSE <<>>
        entry == [pending_files |-> pending, context |-> ctx, model |-> mdl]
    IN  [k \in DOMAIN loaded \cup {target_directory} |->
            IF k = target_directory THEN entry ELSE loaded[k]]

\* ------------------------------------------------------- the process
\* Before the first step completes no estimate line has been printed.
NothingPrinted == [kind |-> "none"]

\* What a process that ends leaves for the next one to be compared with:
\* its pending list and whether it had saved.
Leftover == [pending_files |-> pending_files, saved |-> saves > 0]

\* The memory of a process is gone when it ends, and is this when it starts.
Blank ==
    /\ state' = PyNone
    /\ should_resume' = "False"
    /\ iters' = 0
    /\ context' = EmptyContext
    /\ pending_files' = <<>>
    /\ batch' = <<>>
    /\ total_files' = 0
    /\ idx' = 0
    /\ file_path' = 0
    /\ result' = NoContext
    /\ time_differences' = <<>>
    /\ analyzed_files' = <<>>
    /\ tries' = <<>>
    /\ completed' = <<>>
    /\ sent' = NoContext
    /\ chain' = NoContext
    /\ ncalls' = 0
    /\ saves' = 0
    /\ asked' = 0
    /\ progress' = 0
    /\ eta' = NothingPrinted

\* A process that ends, by sys.exit, by an exception or by being killed.
End(how) ==
    /\ pc' = how
    /\ prev' = Leftover
    /\ Blank
    /\ UNCHANGED <<disk, run, args>>

\* A handler that saved what it had on the way out, the file in hand dropped.
askOllamaFailedSaves ==
    /\ pc' = "ollama_error"
    /\ prev' = Leftover
    /\ Blank
    /\ store' = save_state(fileExists, store, directory,
                           Remove(pending_files, file_path), context, model)
    /\ fileExists' = TRUE
    /\ UNCHANGED <<html, run, args>>

\* Lines 52-54: any status but 200 is printed and the process exits; nothing
\* is written and nothing is called again.
askOllamaFailed == End("ollama_error")

\* ------------------------------------------------- sourceCodeAnalysis
\* A fresh state that keeps the context of the state it replaces.
FreshStateKeepsContext(mdl) ==
    [pending_files |-> get_files_list, context |-> state.context, model |-> mdl]

\* The state of line 221, built when the operator answers "n".
FreshState(mdl) ==
    [pending_files |-> get_files_list, context |-> EmptyContext, model |-> mdl]

\* Lines 204-207: the key is looked up in the state file.
Load ==
    /\ pc = "load"
    /\ state' = load_save_state(fileExists, store, directory)
    /\ should_resume' = "False"
    /\ pc' = "decide"
    /\ UNCHANGED <<disk, run, args, iters, locals, globals, history, output>>

\* Lines 209-226, one iteration of `while True`.  With state None the body
\* does nothing and the loop goes round again, nothing changed.  An answer
\* that is none of y, n and empty asks again.
Prompt ==
    /\ pc = "decide"
    /\ IF state = PyNone
       THEN UNCHANGED vars
       ELSE \E typed \in Answers :
              LET answer == StripLower(typed) IN
              IF answer = "y" /\ state.model # model
              THEN End("mismatch")
              ELSE /\ iters' = IF answer \in {"y", "n", ""}
                                 THEN 0 ELSE Min(iters + 1, MaxIter)
                   /\ should_resume' = IF answer = "" THEN "y" ELSE answer
                   /\ state' = IF answer = "n" THEN FreshState(model) ELSE state
                   /\ pc' = IF answer \in {"y", "n", ""} THEN "build" ELSE "decide"
                   /\ UNCHANGED <<disk, run, args, locals, globals, history, output>>

\* ------------------------------------- build_context_from_directory
\* A batch that starts from the empty context whatever was loaded.
InitialContextEmpty(st) == EmptyContext

\* Line 156: state.get("context", []).
InitialContext(st) == st.context

\* Lines 156-164: the locals of the batch.  pending_files is the very list
\* held by state; batch is the copy the for loop iterates.
BuildStart ==
    /\ pc = "build"
    /\ context' = InitialContext(state)
    /\ pending_files' = state.pending_files
    /\ total_files' = Len(state.pending_files)
    /\ batch' = state.pending_files
    /\ idx' = 0
    /\ completed' = <<>>
    /\ chain' = InitialContext(state)
    /\ pc' = "for"
    /\ UNCHANGED <<disk, run, args, state, should_resume, iters, file_path,
                   result, globals, tries, sent, ncalls, saves, asked, prev,
                   output>>

\* A percentage rounded to the nearest whole number.
ProgressRounded(i, total) == (i * 200 + total) \div (2 * total)

\* Line 168: int((idx / total_files) * 100).
Progress(i, total) == (i * 100) \div total

\* Lines 166-170 and 184: the next file of the copy, or the return of the
\* context to sourceCodeAnalysis, which passes it to the interactive loop.
ForNext ==
    /\ pc = "for"
    /\ IF idx < Len(batch)
       THEN /\ idx' = idx + 1
            /\ file_path' = batch[idx + 1]
            /\ progress' = Progress(idx + 1, total_files)
            /\ result' = NoContext
            /\ tries' = <<>>
            /\ pc' = "while"
       ELSE /\ pc' = "interactive"
            /\ UNCHANGED <<idx, file_path, progress, result, tries>>
    /\ UNCHANGED <<disk, run, args, state, should_resume, iters, context,
                   pending_files, batch, total_files, globals,
                   completed, sent, chain, ncalls, saves, asked, prev, eta>>

\* Lines 143-147: the record appended for a parsed response.
Record(f) == [file |-> f, relevance |-> Relevance, reason |-> "reason"]

\* A parse failure that hands back the context of the answer.
UnparsedReturnsContext(ctx) == ctx

\* Lines 139-141: text that json.loads rejects makes the call return None.
Unparsed(ctx) == NoContext

\* Lines 171-172 with analyze_file_with_context (114-153) and askOllama
\* (38-54): one call for file_path.  A status other than 200 is exit(1);
\* text that json.loads rejects (or None) returns None; JSON that is no
\* object has no .get and the AttributeError ends the process; an object is
\* recorded, the summary is rewritten and the returned context is the result.
AnalyzeFile ==
    /\ pc = "while"
    /\ result = NoContext
    /\ Len(tries) < MaxTries
    /\ \E status \in Statuses, text \in Texts, ctx \in ServiceContexts,
          elapsed_time \in Durations(time_differences) :
         CASE status # 200 -> askOllamaFailed
           [] status = 200 /\ text = "scalar" -> End("crashed")
           [] OTHER ->
                /\ ncalls' = ncalls + 1
                /\ sent' = context
                /\ time_differences' = Append(time_differences, elapsed_time)
                /\ tries' = Append(tries, text)
                /\ IF text \in {"notjson", "absent"}
                   THEN /\ result' = Unparsed(ctx)
                        /\ UNCHANGED <<analyzed_files, html>>
                   ELSE /\ analyzed_files' = Append(analyzed_files, Record(file_path))
                        /\ html' = Append(analyzed_files, Record(file_path))
                        /\ result' = ctx
                /\ UNCHANGED <<fileExists, store, run, pc, args, state,
                               should_resume, iters, context, pending_files,
                               batch, total_files, idx, file_path, completed,
                               chain, saves, asked, prev, output>>

\* Samples needed before an estimate is printed (line 179).
EtaThreshold == 4

RECURSIVE Sum(_)
Sum(s) == IF s = <<>> THEN 0 ELSE Head(s) + Sum(Tail(s))

\* format_time (lines 56-60): whole hours, minutes and seconds, truncated.
format_time(seconds) ==
    [kind |-> "estimate",
     hours |-> seconds \div 3600,
     minutes |-> (seconds % 3600) \div 60,
     seconds |-> seconds % 60]

\* An estimator that waits for one sample more.
EstimateLate(samples, remaining_files) ==
    IF Len(samples) > EtaThreshold
    THEN format_time((Sum(samples) * remaining_files) \div Len(samples))
    ELSE [kind |-> "pending"]

\* Lines 176-182: the mean of all samples times the files left, printed once
\* there are EtaThreshold samples.  The seconds are whole here, so the
\* truncation of format_time is applied to the quotient.
Estimate(samples, remaining_files) ==
    IF Len(samples) >= EtaThreshold
    THEN format_time((Sum(samples) * remaining_files) \div Len(samples))
    ELSE [kind |-> "pending"]

\* Lines 173-182: the file leaves the pending list (and so the list held by
\* state), the state is saved with the loop's context, and the loop goes on.
CompleteStep ==
    /\ pc = "while"
    /\ result # NoContext
    /\ pending_files' = Remove(pending_files, file_path)
    /\ state' = [state EXCEPT !.pending_files = Remove(pending_files, file_path)]
    /\ store' = save_state(fileExists, store, directory,
                           Remove(pending_files, file_path), context, model)
    /\ fileExists' = TRUE
    /\ saves' = saves + 1
    /\ completed' = Append(completed, file_path)
    /\ chain' = result
    /\ tries' = <<>>
    /\ eta' = Estimate(time_differences, total_files - idx)
    /\ pc' = "for"
    /\ UNCHANGED <<html, run, args, should_resume, iters, context, batch,
                   total_files, idx, file_path, result, globals, sent, ncalls,
                   asked, prev, progress>>

\* ---------------------------------- interactive_question_answering
\* Lines 188-198: one question.  'bye' in any case ends the loop; any other
\* input is sent with the current context, which the answer replaces.
Ask ==
    /\ pc = "interactive"
    /\ \E question \in Questions :
         IF Lower(question) = "bye"
         THEN End("done")
         ELSE /\ asked < MaxQuestions
              /\ \E status \in Statuses, ctx \in ServiceContexts :
                   IF status # 200
                   THEN askOllamaFailed
                   ELSE /\ ncalls' = ncalls + 1
                        /\ sent' = context
                        /\ asked' = asked + 1
                        /\ context' = ctx
                        /\ UNCHANGED <<disk, run, pc, args, state, should_resume,
                                       iters, pending_files, batch, total_files,
                                       idx, file_path, result, globals, tries,
                                       completed, chain, saves, prev, output>>

\* ------------------------------------------------- start and end
Ended == pc \in {"mismatch", "ollama_error", "crashed", "done", "killed"}

\* The process is killed from outside, wherever it is.
Kill ==
    /\ ~Ended
    /\ End("killed")

\* The program is started again on the same disk, for the same directory and
\* mode and with any model: the module globals are empty again (lines 10-11).
Restart ==
    /\ Ended
    /\ run < MaxRuns
    /\ run' = run + 1
    /\ model' \in Models
    /\ pc' = "load"
    /\ UNCHANGED <<disk, directory, research, state, should_resume, iters,
                   locals, globals, history, output>>

\* The entry another directory may already have in the state file.
OtherTenant ==
    [pending_files |-> get_files_list, context |-> "c0", model |-> "a"]

\* State files the first process can find: none, or a document with an entry
\* for the target directory, for another directory, for both or for neither.
InitStores(d) ==
    {f \in UNION {[S -> SavedStates] : S \in SUBSET Keys} :
        \A k \in DOMAIN f \ {d} : f[k] = OtherTenant}

\* A stored pending list longer than today's traversal: the list is read
\* from the state file on resume and the directory is not walked again.
Backlog == [i \in 1..MaxBacklog |-> i]

BacklogStores ==
    {[k \in {"A"} |-> s] :
        s \in [pending_files : {Backlog}, context : StoredContexts,
               model : StoredModels]}

\* The first process, over one of the given state files.
Start(stores) ==
    /\ directory = "A"
    /\ store \in stores
    /\ fileExists \in (IF DOMAIN store = {} THEN BOOLEAN ELSE {TRUE})
    /\ html = <<>>
    /\ run = 1
    /\ model \in Models
    /\ research \in BOOLEAN
    /\ prev = [pending_files |-> <<>>, saved |-> FALSE]
    /\ pc = "load"
    /\ state = PyNone
    /\ should_resume = "False"
    /\ iters = 0
    /\ context = EmptyContext
    /\ pending_files = <<>>
    /\ batch = <<>>
    /\ total_files = 0
    /\ idx = 0
    /\ file_path = 0
    /\ result = NoContext
    /\ time_differences = <<>>
    /\ analyzed_files = <<>>
    /\ tries = <<>>
    /\ completed = <<>>
    /\ sent = NoContext
    /\ chain = NoContext
    /\ ncalls = 0
    /\ saves = 0
    /\ asked = 0
    /\ progress = 0
    /\ eta = NothingPrinted

Init == Start(InitStores("A"))

BacklogInit == Start(BacklogStores)

Next ==
    \/ Load
    \/ Prompt
    \/ BuildStart
    \/ ForNext
    \/ AnalyzeFile
    \/ CompleteStep
    \/ Ask
    \/ Kill
    \/ Restart

Spec == Init /\ [][Next]_vars

\* The same program started on a state file that holds a backlog.
BacklogSpec == BacklogInit /\ [][Next]_vars

\* A sequential process takes its next step whenever it has one; being killed
\* and being started again are up to the environment.
Step == Load \/ Prompt \/ BuildStart \/ ForNext \/ AnalyzeFile \/ CompleteStep \/ Ask

FairSpec == Spec /\ WF_vars(Step)

\* ------------------------------------------------------------ properties
InBatch == pc \in {"for", "while"}
Last(s) == s[Len(s)]
Range(s) == {s[i] : i \in 1..Len(s)}
Unparseable == {"notjson", "absent"}
RecordsFor(f) == Cardinality({i \in 1..Len(analyzed_files) : analyzed_files[i].file = f})

\* C1: in the batch loop every analysis call is issued with the context
\* returned by the last completed step (the loaded context before the first
\* step completes), never with an older one.
C1_ContextChain == (pc = "while" /\ tries # <<>>) => sent = chain

\* C2: once the batch loop has saved, the context stored under the target
\* directory is the context returned by the last completed step.
C2_SavedContextIsLatest == saves > 0 => store[directory].context = chain

\* C3: a run that resumes a state saved under another model ends at the
\* prompt: it never reaches the batch, where the calls and the saves are made.
C3_MismatchIsFatal ==
    (pc \in {"build", "for", "while", "interactive"} /\ should_resume = "y")
        => state.model = model

\* C4: with no state for the target directory the process, unless it is
\* killed, reaches the batch loop with the whole traversal pending, the empty
\* context and the requested model.
C4_AbsentStartsFresh ==
    (pc = "decide" /\ state = PyNone)
        ~> \/ pc = "killed"
           \/ /\ pc = "for"
              /\ pending_files = get_files_list
              /\ context = EmptyContext
              /\ state.model = model

\* C5: a save for the target directory leaves every other entry of the state
\* file as it was, and the keys afterwards are the keys before plus the target.
C5_MultiTenant ==
    [][saves' = saves + 1 =>
         /\ DOMAIN store' = DOMAIN store \cup {directory}
         /\ \A k \in DOMAIN store \ {directory} : store'[k] = store[k]]_vars

C5_Witness ==
    /\ saves > 0
    /\ DOMAIN store = {"A", "B"}
    /\ store["B"] = OtherTenant
    /\ store["A"].pending_files # get_files_list

\* C6: throughout a batch the files completed so far followed by the pending
\* list are the list the batch started with: the pending list loses exactly
\* the analysed file per completed step, keeps its order, never grows, and
\* the file in hand is always its first element.
C6_MonotonicShrink ==
    pc \in {"for", "while", "interactive"} =>
        /\ completed \o pending_files = batch
        /\ Len(pending_files) = total_files - Len(completed)
        /\ \A i, j \in 1..Len(completed) : completed[i] = completed[j] => i = j
        /\ pc = "while" => file_path = Head(pending_files)

C6_Witness ==
    /\ pc = "for"
    /\ Len(completed) = MaxFiles
    /\ pending_files = <<>>
    /\ total_files = MaxFiles

C8_RetryEndsOnSuccess ==
    (/\ research
     /\ pc = "while"
     /\ tries # <<>>
     /\ Last(tries) = "object"
     /\ \A i \in 1..(Len(tries) - 1) : tries[i] \in Unparseable)
        => (result # NoContext /\ RecordsFor(file_path) = 1)

\* C9: without a research question, a call that returned text that is no JSON
\* completes the step for the file.
C9_AnyCallSuffices ==
    (~research /\ pc = "while" /\ tries # <<>> /\ Last(tries) = "notjson")
        => result # NoContext

\* C10: resuming a stored state of the requested model, the first call of the
\* run is for the first stored pending file and carries the stored context.
C10_ResumeContinuity ==
    (/\ pc = "while"
     /\ ncalls = 1
     /\ saves = 0
     /\ should_resume = "y"
     /\ store[directory].model = model)
        => /\ sent = store[directory].context
           /\ file_path = Head(store[directory].pending_files)

C10_Witness ==
    /\ pc = "while"
    /\ ncalls = 1
    /\ saves = 0
    /\ should_resume = "y"
    /\ store[directory].model = model
    /\ sent = "c0"
    /\ file_path = MaxFiles

\* C11: a status other than 200, in the batch or in the interactive loop, ends
\* the process at once: nothing on disk changes with the failed call, the
\* process makes no further step (only a new process follows), and when the
\* run resumed a state or has saved, the pending list stored under the target
\* directory is the list in memory and still holds the file in flight.
C11_ServiceErrorIsFatal ==
    [][/\ pc' = "ollama_error" =>
            /\ pc \in {"while", "interactive"}
            /\ disk' = disk
            /\ (pc = "while" /\ (should_resume = "y" \/ saves > 0)) =>
                  /\ directory \in DOMAIN store'
                  /\ store'[directory].pending_files = pending_files
                  /\ file_path \in Range(pending_files)
       /\ pc = "ollama_error" => (pc' = "load" /\ run' = run + 1 /\ disk' = disk)
      ]_vars

\* A call failed in the middle of a batch that had saved, and the store still
\* holds the list the process had, the file in flight included.
C11_Witness ==
    /\ pc = "ollama_error"
    /\ prev.saved
    /\ prev.pending_files # <<>>
    /\ store[directory].pending_files = prev.pending_files

\* C11 as stated: whenever a call of the batch fails, the stored pending list
\* holds the file in flight.
C11_StoredListHoldsFileInFlight ==
    [][(pc = "while" /\ pc' = "ollama_error") =>
         /\ disk' = disk
         /\ directory \in DOMAIN store'
         /\ file_path \in Range(store'[directory].pending_files)]_vars

\* C12: a stored entry never pairs a context with a model other than the one
\* that produced it: the stored contexts of StoredContexts were produced under
\* the models of StoredModels, so no entry holds one of them under another
\* model.
C12_ContextKeepsItsModel ==
    \A k \in DOMAIN store :
        store[k].context \in StoredContexts => store[k].model \in StoredModels

\* C13: in research mode the records in memory are, in order, one record per
\* completed file, followed by the record of the file in hand once its answer
\* has been accepted and by nothing else; and the summary document, once the
\* run has written it, holds the same records.
C13_OneRecordPerAnalysedFile ==
    (research /\ pc \in {"for", "while", "interactive"}) =>
        /\ analyzed_files =
              [i \in 1..Len(completed) |-> Record(completed[i])]
                 \o (IF pc = "while" /\ result # NoContext
                     THEN <<Record(file_path)>> ELSE <<>>)
        /\ analyzed_files # <<>> => html = analyzed_files

\* C14: the interactive loop starts from the final context of the batch:
\* before the first question its context is the one returned by the last
\* completed step (the loaded context when no step completed).
C14_InteractiveStartsFromBatchContext ==
    (pc = "interactive" /\ asked = 0) => context = chain

\* C15: after every completed step there is at least one sample; with fewer
\* than EtaThreshold samples in the run the estimate line says "pending", and
\* from EtaThreshold samples on it shows, in whole hours, minutes and seconds,
\* the number of files still pending times the mean of the samples.
C15_EtaWarmUp ==
    (pc \in {"for", "interactive"} /\ completed # <<>>) =>
        LET n == Len(time_differences)
            due == Len(pending_files) * Sum(time_differences)
        IN /\ n > 0
           /\ n < EtaThreshold => eta = [kind |-> "pending"]
           /\ n >= EtaThreshold =>
                /\ eta.kind = "estimate"
                /\ eta.minutes < 60
                /\ eta.seconds < 60
                /\ LET shown == eta.hours * 3600 + eta.minutes * 60 + eta.seconds
                   IN shown * n <= due /\ due < (shown + 1) * n

\* A step completed with EtaThreshold samples taken and a file still pending,
\* and the estimate shown is not zero; the step before it showed "pending".
C15_Witness ==
    /\ pc = "for"
    /\ Len(completed) > 1
    /\ Len(time_differences) = EtaThreshold
    /\ pending_files # <<>>
    /\ eta.kind = "estimate"
    /\ eta.seconds > 0

\* The nearest whole number to n / d (no tie arises for the totals used).
Rounded(n, d) == (2 * n + d) \div (2 * d)

C17_UnparseableChangesNothing ==
    [][/\ (pc = "while" /\ ncalls' = ncalls + 1 /\ Last(tries') \in Unparseable) =>
            /\ pc' = "while"
            /\ result' = NoContext
            /\ <<pending_files, state, disk, analyzed_files, context,
                 file_path, batch, completed, saves>>' =
               <<pending_files, state, disk, analyzed_files, context,
                 file_path, batch, completed, saves>>
            /\ Len(time_differences') = Len(time_differences) + 1
       /\ (pc = "while" /\ tries # <<>> /\ Last(tries) \in Unparseable
             /\ ncalls' = ncalls + 1) =>
            (file_path' = file_path /\ sent' = sent /\ sent' = context)
      ]_vars

\* The file was called for twice, the first answer being unparseable.
C17_Witness ==
    /\ pc = "while"
    /\ Len(tries) = 2
    /\ tries[1] \in Unparseable
    /\ ncalls = 2

\* C18: no answer returned with status 200 ends the process: whatever its
\* text, the process is never ended by an exception.
C18_EveryAnswerIsRecoverable == pc # "crashed"

\* C19: after the answer "n" the state is the fresh one, whatever was stored:
\* the batch starts with the whole traversal pending, the empty context and
\* the requested model, and what it saves carries that context and model; and
\* after an answer that is refused the process is at the prompt again with
\* the state it loaded, no call made and nothing saved.
C19_FreshDiscardsPrior ==
    /\ (should_resume = "n" /\ pc = "build") =>
          state = [pending_files |-> get_files_list, context |-> EmptyContext,
                   model |-> model]
    /\ (should_resume = "n" /\ pc = "for" /\ idx = 0) =>
          /\ pending_files = get_files_list
          /\ batch = get_files_list
          /\ context = EmptyContext
          /\ state.model = model
          /\ ncalls = 0
    /\ (should_resume = "n" /\ saves > 0) =>
          /\ store[directory].context = EmptyContext
          /\ store[directory].model = model
    /\ (pc = "decide" /\ iters > 0) =>
          /\ state = load_save_state(fileExists, store, directory)
          /\ ncalls = 0
          /\ saves = 0

\* A fresh batch is about to start over a stored state of another model,
\* with a shorter pending list and a context of its own.
C19_Witness ==
    /\ pc = "for"
    /\ idx = 0
    /\ should_resume = "n"
    /\ store[directory].model # model
    /\ store[directory].pending_files # get_files_list
    /\ store[directory].context # EmptyContext

\* C20: once the records hold a record of the file in hand the step is over,
\* whatever context came with it: the retry loop is left, and the file has
\* that one record and no more.
C20_RecordCompletesStep ==
    (pc = "while" /\ RecordsFor(file_path) > 0) =>
        (result # NoContext /\ RecordsFor(file_path) = 1)

====
